---- MODULE Spec2Model ----
(***************************************************************************)
(* State-machine model of the flappy_server gateway: the layer stack that  *)
(* main() assembles (trace, CORS, body limit, timeout, security headers,   *)
(* per-route governor and jwt_middleware), the two keyed rate limiters     *)
(* with their daily clean-up task, and the shared JwtConfig.                *)
(***************************************************************************)
EXTENDS Integers, Sequences, FiniteSets, TLC

\* ------------------------------------------------------------------------
\* Bounds of the model
\* ------------------------------------------------------------------------
MaxTicks == 2      \* number of clock advances explored

\* ------------------------------------------------------------------------
\* Program constants
\* ------------------------------------------------------------------------
PublicPeriod == 60       \* public_governor .per_second(60): seconds per replenished cell
PublicBurst == 3         \* public_governor .burst_size(3)
PrivatePeriod == 60      \* private_governor .per_second(60)
PrivateBurst == 5        \* private_governor .burst_size(5)
SweepInterval == 86400   \* interval of the clean-up task
BodyLimit == 1024        \* RequestBodyLimitLayer::new(1024)
Leeway == 60             \* validation.leeway = 60
RotationInterval == 24 * 3600   \* rotation period the specification states
GatewayTimeout == 504    \* status of the "gateway timeout" the specification states
TimeoutSecs == 10        \* TimeoutLayer::new(Duration::from_secs(10))
TokenLifetime == 3600    \* Duration::hours(1) added by generate_jwt

\* ------------------------------------------------------------------------
\* Input domains
\* ------------------------------------------------------------------------
\* Secrets are opaque values: "s1" stands for the one generate_secret returned
\* at startup, "s0" for any other one a token may have been signed with.
Secrets == {"s1", "s0"}
StartupSecret == "s1"
IPs == {"ip1", "ip2"}
TokenExps == {0, 3600}
Users == {"u1"}
Roles == {"user", "great_leader"}
\* A token is modelled by its claims (sub, role, exp) and the secret that
\* signed it.
Tokens ==
    {t \in [sig : Secrets, exp : TokenExps, sub : Users, role : Roles] :
        /\ (t.sig = StartupSecret \/ t.exp = 3600)
        /\ (t.role # "user" => t.sig = StartupSecret /\ t.exp = 3600)}
TickSteps == {60, 86400}
BodySizes == {0, BodyLimit + 1}
Paths == {"/health", "/api/get-scores", "/api/set-score", "/nope"}

NoToken == [sig |-> "none", exp |-> 0, sub |-> "", role |-> ""]
\* Authorization header of a request: absent, present but not visible ASCII,
\* text without the "Bearer " prefix, or "Bearer <token>".
AuthHeaders ==
    {[kind |-> "none", bearer |-> FALSE, tok |-> NoToken],
     [kind |-> "nontext", bearer |-> FALSE, tok |-> NoToken]}
    \cup {[kind |-> "text", bearer |-> FALSE, tok |-> t] : t \in {[sig |-> StartupSecret, exp |-> 3600, sub |-> "u1", role |-> "user"]}}
    \cup {[kind |-> "text", bearer |-> TRUE, tok |-> t] : t \in Tokens}

NoAuth == [kind |-> "none", bearer |-> FALSE, tok |-> NoToken]
\* The requests the model sends.  Dimensions a route class never reads are
\* held at one value: the peer address matters on public routes only, the
\* Authorization header on protected routes only.
RequestInputs ==
    {i \in [path : Paths, ip : IPs, auth : AuthHeaders, body : BodySizes, declared : BOOLEAN] :
        /\ (i.path # "/health" => i.ip = "ip1")
        /\ (i.path \in {"/health", "/nope"} => i.auth = NoAuth)
        /\ (i.body = 0 => i.declared)
        /\ (i.body > 0 => i.path \in {"/health", "/api/set-score"} /\ i.ip = "ip1")
        /\ (i.body > 0 /\ i.path = "/api/set-score" => i.auth.bearer /\ i.auth.tok.exp = 3600)
        /\ (i.path = "/api/set-score" => i.body > 0)}

\* inputs from which a governor layer extracts a key and whose body is empty
KeyedInputs ==
    {i \in RequestInputs : /\ i.body = 0
                           /\ (i.path = "/health" \/ (i.auth.kind = "text" /\ i.auth.bearer))}

\* The kinds of request one run receives: any single kind (any number of
\* times, on both tasks), or two kinds that each have a rate-limit key.
Workloads ==
    {{i} : i \in RequestInputs}
    \cup {{i, j} : i \in {k \in KeyedInputs : k.path = "/health" /\ k.ip = "ip1"},
                    j \in {k \in KeyedInputs : k.ip = "ip2" \/ k.auth.tok.sig = "s0"}}

NoEntry == -1
\* the empty bearer string, the key a defaulting extractor would fall back to
DefaultKey == [sig |-> "", exp |-> 0, sub |-> "", role |-> ""]
PrivateKeys == Tokens \cup {DefaultKey}

Max(a, b) == IF a >= b THEN a ELSE b

\* ------------------------------------------------------------------------
\* Layer stack (outermost first).  In axum the layer added last is the
\* outermost one.
\* ------------------------------------------------------------------------
AppLayers == <<"trace", "cors", "body_limit", "timeout", "security_headers">>
PublicLayers == <<"governor">>
\* (variant: the two layers of private_router added in the other order)
PrivateLayersAuthFirst == <<"jwt", "governor">>
PrivateLayers == <<"governor", "jwt">>

RouteClass(path) ==
    CASE path \in {"/health", "/login"} -> "public"
      [] path \in {"/api/get-scores", "/api/set-score", "/api/flush"} -> "private"
      [] OTHER -> "fallback"

RouteLayers(path) ==
    CASE RouteClass(path) = "public" -> PublicLayers
      [] RouteClass(path) = "private" -> PrivateLayers
      [] OTHER -> << >>

\* handlers that take a Json<...> extractor read the request body
ReadsBody(path) == path \in {"/login", "/api/set-score"}

Pos(layer) == CHOOSE i \in 1..Len(AppLayers) : AppLayers[i] = layer
RouterPos == Len(AppLayers) + 1

\* ------------------------------------------------------------------------
\* Security headers
\* ------------------------------------------------------------------------
SecHeaderNames == {"content-security-policy", "strict-transport-security",
                   "x-content-type-options", "x-frame-options",
                   "referrer-policy", "permissions-policy"}
SecurityHeaders ==
    [h \in SecHeaderNames |->
        CASE h = "content-security-policy" -> "default-src 'self'"
          [] h = "strict-transport-security" -> "max-age=31536000; includeSubDomains"
          [] h = "x-content-type-options" -> "nosniff"
          [] h = "x-frame-options" -> "DENY"
          [] h = "referrer-policy" -> "no-referrer-when-downgrade"
          [] h = "permissions-policy" -> "geolocation=(), camera=()"]
NoHeaders == [h \in SecHeaderNames |-> ""]

\* values a response may already carry for the six names when it comes back
\* from the inner service
InnerHeaders == {NoHeaders, [NoHeaders EXCEPT !["x-frame-options"] = "SAMEORIGIN"]}

\* (variant: a header the inner response already carries is kept)
set_up_security_headers_keep(hdrs) ==
    [h \in SecHeaderNames |-> IF hdrs[h] # "" THEN hdrs[h] ELSE SecurityHeaders[h]]

\* set_up_security_headers: inserts (overwriting) the six headers
set_up_security_headers(hdrs) == [h \in SecHeaderNames |-> SecurityHeaders[h]]

\* headers of a response generated at position pos of the stack with the
\* headers inner, after it has travelled back out through the layers
\* outside pos
ResponseHeadersOf(pos, inner) ==
    IF Pos("security_headers") < pos THEN set_up_security_headers(inner)
    ELSE inner

ResponseHeaders(pos) == ResponseHeadersOf(pos, NoHeaders)

\* ------------------------------------------------------------------------
\* Key extraction
\* ------------------------------------------------------------------------
\* (variant: an extractor that falls back to the empty key instead of failing)
JwtKeyExtractorOrDefault(auth) ==
    IF auth.kind = "text" /\ auth.bearer
    THEN [ok |-> TRUE, key |-> auth.tok]
    ELSE [ok |-> TRUE, key |-> DefaultKey]

\* JwtKeyExtractor::extract: Ok(key) or Err(UnableToExtractKey)
JwtKeyExtractor(auth) ==
    IF auth.kind = "text" /\ auth.bearer
    THEN [ok |-> TRUE, key |-> auth.tok]
    ELSE [ok |-> FALSE, key |-> DefaultKey]

\* PeerIpKeyExtractor, the default extractor of the public governor
PeerIpKeyExtractor(ip) == [ok |-> TRUE, key |-> ip]

\* ------------------------------------------------------------------------
\* Token verification
\* ------------------------------------------------------------------------
JwtConfigNew(secret) ==
    [secret |-> secret, leeway |-> Leeway, validate_exp |-> TRUE]

\* (variant: a decode that allows no clock skew)
decodeNoLeeway(token, secret, validation, now) ==
    IF token.sig # secret THEN "InvalidSignature"
    ELSE IF validation.validate_exp /\ token.exp < now
         THEN "ExpiredSignature"
         ELSE "ok"

\* (variant: a decode that validates the expiry only, not the signature)
decodeUnverified(token, secret, validation, now) ==
    IF validation.validate_exp /\ token.exp < now - validation.leeway
    THEN "ExpiredSignature"
    ELSE "ok"

\* jsonwebtoken::decode as jwt_middleware calls it
decode(token, secret, validation, now) ==
    IF token.sig # secret THEN "InvalidSignature"
    ELSE IF validation.validate_exp /\ token.exp < now - validation.leeway
         THEN "ExpiredSignature"
         ELSE "ok"

\* ------------------------------------------------------------------------
\* GCRA decision of the governor rate limiter
\* ------------------------------------------------------------------------
\* (variant: idle time is credited without a cap)
GcraDecideUncapped(tat, t0, t, burst) ==
    LET tau == t * burst
        tatv == IF tat = NoEntry THEN t0 + t ELSE tat
        earliest == Max(tatv - tau, 0)
    IN IF t0 < earliest THEN [ok |-> FALSE, next |-> tat]
       ELSE [ok |-> TRUE, next |-> tatv + t]

\* result for a cell arriving at t0 when the stored theoretical arrival
\* time is tat: [ok, next]
GcraDecide(tat, t0, t, burst) ==
    LET tau == t * burst
        tatv == IF tat = NoEntry THEN t0 + t ELSE tat
        earliest == Max(tatv - tau, 0)
    IN IF t0 < earliest THEN [ok |-> FALSE, next |-> tat]
       ELSE [ok |-> TRUE, next |-> Max(tatv, t0) + t]

LimiterOf(path) == IF RouteClass(path) = "public" THEN "public" ELSE "private"
PeriodOf(lim) == IF lim = "public" THEN PublicPeriod ELSE PrivatePeriod
BurstOf(lim) == IF lim = "public" THEN PublicBurst ELSE PrivateBurst

\* (variant: a sweep that drops nothing)
retain_all(store, now) == store

\* (variant: a sweep that drops every key)
retain_none(store, now) == [k \in DOMAIN store |-> NoEntry]

\* (variant: the new cell value is not stored)
StoreUpdateNone(store, k, v) == store

\* (variant: one cell shared by all keys)
StoreUpdateShared(store, k, v) == [x \in DOMAIN store |-> v]

\* keyed state store: write of one key's cell
StoreUpdate(store, k, v) == [store EXCEPT ![k] = v]

\* retain_recent: drop the keys whose state is no later than now
retain_recent(store, now) ==
    [k \in DOMAIN store |-> IF store[k] <= now THEN NoEntry ELSE store[k]]

\* ------------------------------------------------------------------------
\* Token issuing
\* ------------------------------------------------------------------------
\* clock values a TimeProvider returns: Utc::now() is never before the epoch;
\* MockTime is 2015-03-15 12:00:00 UTC
MockTimeNow == 1426420800
IssueTimes == {0, 1, 3599, MockTimeNow}
IssueUsers == {"u1", "test_user"}
\* offsets from the issuing time at which a token is presented
VerifyOffsets == {0, Leeway, TokenLifetime, TokenLifetime + Leeway - 1,
                  TokenLifetime + Leeway, TokenLifetime + Leeway + 1}

\* i64 -> usize cast of a timestamp: it keeps a non-negative value, and the
\* clock values above make every timestamp non-negative
AsUsize(x) == x

\* the claims that serde reads back from a token's payload
NoClaims == [sub |-> "", role |-> "", exp |-> 0 - 1]
ClaimsOf(token) == [sub |-> token.sub, role |-> token.role, exp |-> token.exp]

\* (variant: the expiry is the issuing time itself)
generate_jwt_no_lifetime(user_id, secret, role, now) ==
    [sub |-> user_id, role |-> role, exp |-> AsUsize(now), sig |-> secret]

\* generate_jwt(user_id, secret, role, time)
generate_jwt(user_id, secret, role, now) ==
    [sub |-> user_id, role |-> role,
     exp |-> AsUsize(now + TokenLifetime),
     sig |-> secret]

\* Validation values a token is decoded with: the one JwtConfig::new builds
\* and the default one with validate_exp switched off
Validations == {[leeway |-> Leeway, validate_exp |-> TRUE],
                [leeway |-> Leeway, validate_exp |-> FALSE]}

NoIssue == [stage |-> "none", user |-> "", role |-> "", secret |-> "", now |-> 0,
            token |-> NoToken, key |-> "", val |-> [leeway |-> 0, validate_exp |-> FALSE],
            at |-> 0, verdict |-> "", claims |-> NoClaims]

\* ------------------------------------------------------------------------
\* Score table.  A row is represented by its player_score; the table is the
\* number of rows per score.
\* ------------------------------------------------------------------------
MaxScore == 3        \* scores sent are 0..MaxScore
MaxSubmits == 12     \* number of add_new_score_db calls explored
TopLimit == 10       \* LIMIT 10
DefaultMinScore == 1 \* COALESCE(MIN(player_score), 1)
ScoreValues == 0..MaxScore
EmptyTable == [s \in ScoreValues |-> 0]

RECURSIVE RowsFrom(_, _)
\* number of rows whose score is at least s
RowsFrom(t, s) == IF s > MaxScore THEN 0 ELSE t[s] + RowsFrom(t, s + 1)
Rows(t) == RowsFrom(t, 0)

Min(a, b) == IF a <= b THEN a ELSE b

\* SELECT ... ORDER BY player_score DESC LIMIT n
TopRows(t, n) ==
    [s \in ScoreValues |-> Min(t[s], Max(0, n - RowsFrom(t, s + 1)))]

\* MIN(player_score) of a non-empty set of rows
MinScore(t) == CHOOSE s \in ScoreValues : t[s] > 0 /\ \A s2 \in ScoreValues : t[s2] > 0 => s <= s2

InsertRow(t, score) == [t EXCEPT ![score] = @ + 1]

\* (variant: a table with fewer than LIMIT rows takes any positive score)
check_if_record_worthy_fill(t, score) ==
    LET top == TopRows(t, TopLimit)
        min_score == IF Rows(top) < TopLimit THEN DefaultMinScore ELSE MinScore(top)
    IN score >= min_score

check_if_record_worthy(t, score) ==
    LET top == TopRows(t, TopLimit)
        min_score == IF Rows(top) = 0 THEN DefaultMinScore ELSE MinScore(top)
    IN score >= min_score

\* (variant: the DELETE removes nothing)
delete_outside_top_none(t) == t

\* DELETE ... WHERE id NOT IN (SELECT id ... ORDER BY player_score DESC LIMIT 10)
delete_outside_top(t) == TopRows(t, TopLimit)

\* INSERT, then DELETE the rows that are not among the top LIMIT
add_new_score_db(t, score) ==
    IF check_if_record_worthy(t, score)
    THEN TopRows(InsertRow(t, score), TopLimit)
    ELSE t

RECURSIVE Descending(_, _)
\* the scores of t that are at most s, highest first
Descending(t, s) ==
    IF s < 0 THEN << >>
    ELSE [i \in 1..t[s] |-> s] \o Descending(t, s - 1)

\* SELECT player_name, player_score ... ORDER BY player_score DESC
get_scores_db(t) == Descending(t, MaxScore)

\* ------------------------------------------------------------------------
\* Lifecycle
\* ------------------------------------------------------------------------
MaxSignals == 2      \* number of signals delivered to the process
SignalKinds == {"TERM", "HUP", "INT"}

\* (variant: a later signal puts the server back into service)
OnSignalToggle(ph, sig) == IF ph = "Running" THEN "Draining" ELSE "Running"

\* wait_for_shutdown_signal completes at the first signal of any of the three
\* kinds; it is awaited once
OnSignal(ph, sig) == IF ph = "Running" THEN "Draining" ELSE ph

\* (variant: the accept loop keeps running after the signal)
AcceptingAlways(ph) == TRUE

\* the accept loop of axum::serve runs until the shutdown future completes
Accepting(ph) == ph = "Running"

\* ------------------------------------------------------------------------
\* The RwLock around JwtConfig (tokio::sync::RwLock: fair, write-preferring)
\* ------------------------------------------------------------------------
MaxRotations == 2    \* number of replacements of the JwtConfig explored
\* writer: "none", "waiting" (queued for the write lock) or "held";
\* version: number of replacements of the JwtConfig so far
RwInit == [writer |-> "none", version |-> 0]

\* (variant: the guard is a temporary dropped at the end of its statement)
KeptGuardsDropped(n) == 0

\* `let secret = &state.jwt_config.read().await.secret;` borrows from the
\* guard, which therefore lives to the end of jwt_middleware's body: after
\* n such statements n read guards are held
KeptGuards(n) == n

\* ------------------------------------------------------------------------
\* Authorization header values as strings.  A value is a sequence of
\* symbols: "B" stands for the word Bearer, " " for a space, "a" for a
\* character of a token.
\* ------------------------------------------------------------------------
MaxHeaderLen == 4    \* length of the header values explored
HeaderSymbols == {"B", " ", "a"}
HeaderValues == UNION {[1..n -> HeaderSymbols] : n \in 1..MaxHeaderLen}
BearerPrefix == <<"B", " ">>

\* str::strip_prefix: Some(rest) or None
strip_prefix(s, prefix) ==
    IF Len(s) >= Len(prefix) /\ SubSeq(s, 1, Len(prefix)) = prefix
    THEN [some |-> TRUE, rest |-> SubSeq(s, Len(prefix) + 1, Len(s))]
    ELSE [some |-> FALSE, rest |-> << >>]

RECURSIVE trim_start(_)
trim_start(s) == IF s # << >> /\ Head(s) = " " THEN trim_start(Tail(s)) ELSE s

RECURSIVE trim_end(_)
trim_end(s) ==
    IF s # << >> /\ s[Len(s)] = " " THEN trim_end(SubSeq(s, 1, Len(s) - 1)) ELSE s

\* str::trim: leading and trailing whitespace removed
trim(s) == trim_end(trim_start(s))

\* JwtKeyExtractor::extract on the header value: the rest after "Bearer "
extract(header) ==
    LET rest == strip_prefix(header, BearerPrefix)
    IN [ok |-> rest.some, key |-> rest.rest]

\* jwt_middleware: the token it decodes, the trimmed rest after "Bearer "
middleware_token(header) ==
    LET rest == strip_prefix(header, BearerPrefix)
    IN [ok |-> rest.some, token |-> trim(rest.rest)]

\* ------------------------------------------------------------------------
\* One key checked by two limiters of the same quota that see the same
\* checks at the same times: one is swept by the clean-up task, one never
\* ------------------------------------------------------------------------
MaxAdvances == 3     \* number of clock advances between the checks explored
TwinSteps == {1, 60, 360}
NoTwin == [lim |-> "none", swept |-> NoEntry, plain |-> NoEntry, now |-> 0,
           advances |-> 0, checked |-> FALSE,
           allow_swept |-> FALSE, allow_plain |-> FALSE,
           passed_swept |-> 0, passed_plain |-> 0, dropped |-> 0]

Calls == {"c1", "c2"}
IdleCall == [pc |-> "idle", score |-> 0, raced |-> FALSE]

NoProbe == [stage |-> "none", h1 |-> << >>, h2 |-> << >>,
            key1 |-> [ok |-> FALSE, key |-> << >>], key2 |-> [ok |-> FALSE, key |-> << >>],
            tok1 |-> [ok |-> FALSE, token |-> << >>], tok2 |-> [ok |-> FALSE, token |-> << >>]]

VARIABLES clock, ticks, mix, public_limiter, private_limiter, jwt_config,
          startup_secret, cleaner, req,
          touched,               \* history: time of each key's last allowed check
          phase, signals,        \* lifecycle of axum::serve with graceful shutdown
          table, submitted,      \* flappy_dragon_score and the scores sent to it
          issued,                \* one generate_jwt / decode call and its result
          rw,                    \* the RwLock around jwt_config and its writer
          probe,                 \* two Authorization header values and what is read from them
          twin,                  \* one key checked with and without sweeps
          calls, inserted        \* concurrent add_new_score_db calls and the rows they inserted

vars == <<clock, ticks, mix, public_limiter, private_limiter, jwt_config,
          startup_secret, cleaner, req, touched, phase, signals, table, submitted,
          issued, rw, probe, twin, calls, inserted>>

\* the variables the request pipeline and the clean-up task never write
extra == <<rw, probe, twin, calls, inserted>>
aside == <<phase, signals, table, submitted, issued, extra>>

\* request-handling tasks that may run concurrently
Reqs == {"r1", "r2"}

IdleReq ==
    [pc |-> "idle", path |-> "", ip |-> "", auth |-> NoAuth,
     cl |-> -1, body |-> 0, stage |-> 0, seen |-> NoEntry,
     sec |-> "", val |-> [leeway |-> 0, validate_exp |-> FALSE],
     status |-> 0, hdrs |-> NoHeaders,
     gov |-> "none", jwt |-> FALSE, authn |-> FALSE, handled |-> FALSE,
     start |-> 0, ext |-> NoClaims,
     guards |-> 0, secver |-> 0, valver |-> 0]

\* the key a governor layer extracts for a request
Extract(q) ==
    IF LimiterOf(q.path) = "public" THEN PeerIpKeyExtractor(q.ip) ELSE JwtKeyExtractor(q.auth)
LimiterKey(q) == Extract(q).key

\* the response leaves the Timeout layer, which drops its sleep; the future
\* of jwt_middleware has ended and with it the read guards it held
Respond(q, status, pos) ==
    [q EXCEPT !.pc = "done", !.status = status, !.hdrs = ResponseHeaders(pos),
              !.start = 0, !.guards = 0, !.secver = 0, !.valver = 0]

\* The request enters element i of its route's layers and runs up to the
\* first point where it touches shared state.
EnterStage(q, i) ==
    LET layers == RouteLayers(q.path) IN
    IF i > Len(layers) THEN
        IF RouteClass(q.path) = "fallback"
        THEN Respond([q EXCEPT !.stage = i, !.handled = TRUE], 404, RouterPos)
        ELSE [q EXCEPT !.pc = "handler", !.stage = i]
    ELSE IF layers[i] = "governor" THEN
        IF ~Extract(q).ok
        THEN Respond([q EXCEPT !.stage = i, !.gov = "nokey"], 500, RouterPos)
        ELSE [q EXCEPT !.pc = "gov_load", !.stage = i]
    ELSE \* jwt_middleware: header parsing
        LET q1 == [q EXCEPT !.stage = i, !.jwt = TRUE] IN
        IF q.auth.kind = "none" THEN Respond(q1, 401, RouterPos)
        ELSE IF q.auth.kind = "nontext" \/ ~q.auth.bearer THEN Respond(q1, 400, RouterPos)
        ELSE [q1 EXCEPT !.pc = "jwt_read_secret"]

\* state after main() has built the limiters, the JwtConfig and the router
\* and axum::serve has started, for a run that receives the requests W
Started(W) ==
    /\ clock = 0
    /\ ticks = 0
    /\ mix \in W
    /\ public_limiter = [k \in IPs |-> NoEntry]
    /\ private_limiter = [k \in PrivateKeys |-> NoEntry]
    /\ jwt_config = JwtConfigNew(StartupSecret)
    /\ startup_secret = StartupSecret
    /\ cleaner = 0
    /\ req = [r \in Reqs |-> IdleReq]
    /\ touched = [public |-> [k \in IPs |-> NoEntry], private |-> [k \in PrivateKeys |-> NoEntry]]
    /\ phase = "Running"
    /\ signals = << >>
    /\ table = EmptyTable
    /\ submitted = EmptyTable
    /\ issued = NoIssue
    /\ rw = RwInit
    /\ probe = NoProbe
    /\ twin = NoTwin
    /\ calls = [c \in Calls |-> IdleCall]
    /\ inserted = EmptyTable

Init == Started(Workloads)

\* the Timeout layer's sleep has not elapsed for request q
Live(q) == clock < q.start + TimeoutSecs

\* A connection is accepted and its request arrives and passes the
\* application-level layers.
Arrive(r) ==
    /\ req[r].pc = "idle"
    /\ Accepting(phase)
    /\ \E i \in mix :
         LET q == [IdleReq EXCEPT !.path = i.path, !.ip = i.ip, !.auth = i.auth,
                                  !.body = i.body, !.start = clock,
                                  !.cl = IF i.declared THEN i.body ELSE -1]
         IN req' = [req EXCEPT ![r] =
                      IF q.cl > BodyLimit
                      THEN Respond(q, 413, Pos("body_limit"))
                      ELSE EnterStage(q, 1)]
    /\ UNCHANGED <<clock, ticks, mix, public_limiter, private_limiter, jwt_config,
                   startup_secret, cleaner>>
    /\ UNCHANGED <<aside, touched>>

Store(lim) == IF lim = "public" THEN public_limiter ELSE private_limiter

\* outcome of one evaluation of the decision function on the value prev
GovDecision(r, q, prev) ==
    LET lim == LimiterOf(q.path)
        d == GcraDecide(prev, clock, PeriodOf(lim), BurstOf(lim))
    IN IF d.ok THEN [q EXCEPT !.pc = "gov_cas", !.seen = prev, !.gov = "checking"]
       ELSE Respond([q EXCEPT !.gov = "rejected", !.seen = NoEntry], 429, RouterPos)

\* measure_and_replace: load the key's cell and evaluate the decision
GovLoad(r) ==
    /\ req[r].pc = "gov_load"
    /\ Live(req[r])
    /\ req' = [req EXCEPT ![r] = GovDecision(r, req[r], Store(LimiterOf(req[r].path))[LimiterKey(req[r])])]
    /\ UNCHANGED <<clock, ticks, mix, public_limiter, private_limiter, jwt_config,
                   startup_secret, cleaner>>
    /\ UNCHANGED <<aside, touched>>

\* (variant: a plain store in place of the compare-and-exchange)
CasBlind(current, seen) == TRUE

\* compare_exchange of the new value against the loaded one
CasSucceeds(current, seen) == current = seen

GovCas(r) ==
    /\ req[r].pc = "gov_cas"
    /\ Live(req[r])
    /\ LET q == req[r]
           lim == LimiterOf(q.path)
           k == LimiterKey(q)
           cur == Store(lim)[k]
           d == GcraDecide(q.seen, clock, PeriodOf(lim), BurstOf(lim))
       IN IF CasSucceeds(cur, q.seen)
          THEN /\ public_limiter' = IF lim = "public" THEN StoreUpdate(public_limiter, k, d.next)
                                    ELSE public_limiter
               /\ private_limiter' = IF lim = "private" THEN StoreUpdate(private_limiter, k, d.next)
                                     ELSE private_limiter
               /\ touched' = [touched EXCEPT ![lim][k] = clock]
               /\ req' = [req EXCEPT ![r] = EnterStage([q EXCEPT !.gov = "allowed", !.seen = NoEntry], q.stage + 1)]
          ELSE /\ req' = [req EXCEPT ![r] = GovDecision(r, q, cur)]
               /\ UNCHANGED <<public_limiter, private_limiter, touched>>
    /\ UNCHANGED <<clock, ticks, mix, jwt_config, startup_secret, cleaner>>
    /\ UNCHANGED aside

\* read() is granted at once unless a writer holds the lock or is queued for
\* it; otherwise the reader is queued behind the writer
ReadGranted == rw.writer = "none"

\* (variant: the first guard is released once the secret has been read)
AcquireSecretUnguarded(q, cfg, ver) ==
    [q EXCEPT !.pc = "jwt_read_validation", !.authn = TRUE,
              !.sec = cfg.secret, !.secver = ver, !.guards = 0]

\* the first read guard is acquired and the secret read through it
AcquireSecret(q, cfg, ver) ==
    [q EXCEPT !.pc = "jwt_read_validation", !.authn = TRUE,
              !.sec = cfg.secret, !.secver = ver, !.guards = KeptGuards(1)]

\* the second read guard is acquired and the validation read through it
AcquireValidation(q, cfg, ver) ==
    [q EXCEPT !.pc = "jwt_decode",
              !.val = [leeway |-> cfg.leeway, validate_exp |-> cfg.validate_exp],
              !.valver = ver, !.guards = KeptGuards(2)]

\* jwt_middleware: state.jwt_config.read().await.secret
JwtReadSecret(r) ==
    /\ req[r].pc = "jwt_read_secret"
    /\ Live(req[r])
    /\ req' = [req EXCEPT ![r] = IF ReadGranted
                                  THEN AcquireSecret(@, jwt_config, rw.version)
                                  ELSE [@ EXCEPT !.pc = "jwt_wait_secret"]]
    /\ UNCHANGED <<clock, ticks, mix, public_limiter, private_limiter, jwt_config,
                   startup_secret, cleaner>>
    /\ UNCHANGED <<aside, touched>>

\* jwt_middleware: state.jwt_config.read().await.validation
JwtReadValidation(r) ==
    /\ req[r].pc = "jwt_read_validation"
    /\ Live(req[r])
    /\ req' = [req EXCEPT ![r] = IF ReadGranted
                                  THEN AcquireValidation(@, jwt_config, rw.version)
                                  ELSE [@ EXCEPT !.pc = "jwt_wait_validation"]]
    /\ UNCHANGED <<clock, ticks, mix, public_limiter, private_limiter, jwt_config,
                   startup_secret, cleaner>>
    /\ UNCHANGED <<aside, touched>>

\* the request jwt_middleware hands to next.run: the request it received;
\* the decoded claims (_claims) are dropped
Forwarded(q, claims) == q

\* jwt_middleware: decode, then next.run(req) or the DecodeError response
JwtDecode(r) ==
    /\ req[r].pc = "jwt_decode"
    /\ Live(req[r])
    /\ LET q == req[r]
           res == decode(q.auth.tok, q.sec, q.val, clock)
       IN req' = [req EXCEPT ![r] =
                    IF res = "ok"
                    THEN EnterStage(Forwarded(q, ClaimsOf(q.auth.tok)), q.stage + 1)
                    ELSE Respond(q, 401, RouterPos)]
    /\ UNCHANGED <<clock, ticks, mix, public_limiter, private_limiter, jwt_config,
                   startup_secret, cleaner>>
    /\ UNCHANGED <<aside, touched>>

\* The routed handler runs and produces its response.
Handler(r) ==
    /\ req[r].pc = "handler"
    /\ Live(req[r])
    /\ LET q == [req[r] EXCEPT !.handled = TRUE] IN
         IF ReadsBody(q.path) /\ q.body > BodyLimit
         THEN req' = [req EXCEPT ![r] = Respond(q, 413, RouterPos)]
         ELSE \E s \in {200, 500}, inner \in InnerHeaders :
                 req' = [req EXCEPT ![r] =
                           [Respond(q, s, RouterPos) EXCEPT !.hdrs = ResponseHeadersOf(RouterPos, inner)]]
    /\ UNCHANGED <<clock, ticks, mix, public_limiter, private_limiter, jwt_config,
                   startup_secret, cleaner>>
    /\ UNCHANGED <<aside, touched>>

\* The response has been written; the task serves the next request.
Finish(r) ==
    /\ req[r].pc = "done"
    /\ req' = [req EXCEPT ![r] = IdleReq]
    /\ UNCHANGED <<clock, ticks, mix, public_limiter, private_limiter, jwt_config,
                   startup_secret, cleaner>>
    /\ UNCHANGED <<aside, touched>>

\* Timeout layer: the sleep elapses before the inner service has answered;
\* the inner future is dropped with what it holds and the layer answers
\* 408 Request Timeout
TimeoutAbort(q) ==
    Respond([q EXCEPT !.stage = 0, !.seen = NoEntry, !.sec = IdleReq.sec, !.val = IdleReq.val],
            408, Pos("timeout"))

\* request q once the clock has reached now
Elapse(q, now) ==
    IF q.pc \notin {"idle", "reading", "done"} /\ now >= q.start + TimeoutSecs
    THEN TimeoutAbort(q)
    ELSE q

HoldsRef(lim) == \E r \in Reqs : req[r].pc = "gov_cas" /\ LimiterOf(req[r].path) = lim

\* clean-up task: interval.tick() fires, both limiters retain_recent()
CleanUp ==
    /\ phase # "Stopped"
    /\ clock >= cleaner
    /\ ~HoldsRef("public") /\ ~HoldsRef("private")
    /\ public_limiter' = retain_recent(public_limiter, clock)
    /\ private_limiter' = retain_recent(private_limiter, clock)
    /\ cleaner' = cleaner + SweepInterval
    /\ UNCHANGED <<clock, ticks, mix, jwt_config, startup_secret, req>>
    /\ UNCHANGED <<aside, touched>>

\* Time passes; the Timeout sleeps that elapse meanwhile fire.
Tick ==
    /\ ticks < MaxTicks
    /\ clock < cleaner     \* a due interval tick fires before time moves on
    /\ \E d \in TickSteps :
         /\ clock' = clock + d
         /\ req' = [r \in Reqs |-> Elapse(req[r], clock + d)]
    /\ ticks' = ticks + 1
    /\ UNCHANGED <<mix, public_limiter, private_limiter, jwt_config,
                   startup_secret, cleaner>>
    /\ UNCHANGED <<aside, touched>>

Next ==
    \/ \E r \in Reqs : Arrive(r)
    \/ \E r \in Reqs : GovLoad(r)
    \/ \E r \in Reqs : GovCas(r)
    \/ \E r \in Reqs : JwtReadSecret(r)
    \/ \E r \in Reqs : JwtReadValidation(r)
    \/ \E r \in Reqs : JwtDecode(r)
    \/ \E r \in Reqs : Handler(r)
    \/ \E r \in Reqs : Finish(r)
    \/ CleanUp
    \/ Tick

Spec == Init /\ [][Next]_vars

\* ------------------------------------------------------------------------
\* Shutdown: axum::serve(...).with_graceful_shutdown(wait_for_shutdown_signal())
\* ------------------------------------------------------------------------
\* The accept loop takes a connection whose client has not yet sent its
\* request.
Connect(r) ==
    /\ req[r].pc = "idle"
    /\ Accepting(phase)
    /\ req' = [req EXCEPT ![r] = [IdleReq EXCEPT !.pc = "reading"]]
    /\ UNCHANGED <<clock, ticks, mix, public_limiter, private_limiter, jwt_config,
                   startup_secret, cleaner>>
    /\ UNCHANGED <<aside, touched>>

\* The client of an accepted connection sends its request, which passes the
\* application-level layers.
ReceiveRequest(r) ==
    /\ req[r].pc = "reading"
    /\ \E i \in mix :
         LET q == [IdleReq EXCEPT !.path = i.path, !.ip = i.ip, !.auth = i.auth,
                                  !.body = i.body, !.start = clock,
                                  !.cl = IF i.declared THEN i.body ELSE -1]
         IN req' = [req EXCEPT ![r] =
                      IF q.cl > BodyLimit
                      THEN Respond(q, 413, Pos("body_limit"))
                      ELSE EnterStage(q, 1)]
    /\ UNCHANGED <<clock, ticks, mix, public_limiter, private_limiter, jwt_config,
                   startup_secret, cleaner>>
    /\ UNCHANGED <<aside, touched>>

\* The client of an accepted connection closes it without a request.
ClientCloses(r) ==
    /\ req[r].pc = "reading"
    /\ req' = [req EXCEPT ![r] = IdleReq]
    /\ UNCHANGED <<clock, ticks, mix, public_limiter, private_limiter, jwt_config,
                   startup_secret, cleaner>>
    /\ UNCHANGED <<aside, touched>>

\* A termination signal is delivered to the process.
Signal(sig) ==
    /\ phase # "Stopped"
    /\ Len(signals) < MaxSignals
    /\ signals' = Append(signals, sig)
    /\ phase' = OnSignal(phase, sig)
    /\ UNCHANGED <<clock, ticks, mix, public_limiter, private_limiter, jwt_config,
                   startup_secret, cleaner, req, touched, table, submitted, issued>>
    /\ UNCHANGED extra

\* (variant: serve returns at the signal without waiting for connections)
DrainedAtOnce(rq) == TRUE

\* every connection task has ended
Drained(rq) == \A r \in Reqs : rq[r].pc = "idle"

\* serve returns once the accept loop has stopped and every connection has
\* ended; main returns and the runtime drops the clean-up task
ServeReturns ==
    /\ phase = "Draining"
    /\ Drained(req)
    /\ phase' = "Stopped"
    /\ UNCHANGED <<clock, ticks, mix, public_limiter, private_limiter, jwt_config,
                   startup_secret, cleaner, req, touched, signals, table, submitted, issued>>
    /\ UNCHANGED extra

\* runs in which signals are delivered receive health checks from one peer
LifecycleWorkloads == {{i} : i \in {k \in KeyedInputs : k.path = "/health" /\ k.ip = "ip1"}}

LifecycleNext ==
    \/ \E r \in Reqs : Arrive(r)
    \/ \E r \in Reqs : GovLoad(r)
    \/ \E r \in Reqs : GovCas(r)
    \/ \E r \in Reqs : Handler(r)
    \/ \E r \in Reqs : Finish(r)
    \/ CleanUp
    \/ Tick
    \/ \E r \in Reqs : Connect(r)
    \/ \E r \in Reqs : ReceiveRequest(r)
    \/ \E r \in Reqs : ClientCloses(r)
    \/ \E sig \in SignalKinds : Signal(sig)
    \/ ServeReturns

\* The runtime polls every task that can make progress: the steps of a
\* dispatched request, the clean-up task and serve itself.  What clients do
\* (connecting, sending a request, closing) and signals are not scheduled.
LifecycleFairness ==
    /\ \A r \in Reqs :
         /\ WF_vars(GovLoad(r)) /\ WF_vars(GovCas(r))
         /\ WF_vars(Handler(r)) /\ WF_vars(Finish(r))
    /\ WF_vars(CleanUp)
    /\ WF_vars(ServeReturns)

LifecycleSpec == Started(LifecycleWorkloads) /\ [][LifecycleNext]_vars /\ LifecycleFairness

\* ------------------------------------------------------------------------
\* generate_jwt and decode on their own
\* ------------------------------------------------------------------------
\* generate_jwt is called with some user id, role, secret and clock value
Issue ==
    /\ issued.stage = "none"
    /\ \E u \in IssueUsers, ro \in Roles, se \in Secrets, now \in IssueTimes :
         issued' = [NoIssue EXCEPT !.stage = "issued", !.user = u, !.role = ro,
                                   !.secret = se, !.now = now,
                                   !.token = generate_jwt(u, se, ro, now)]
    /\ UNCHANGED <<clock, ticks, mix, public_limiter, private_limiter, jwt_config,
                   startup_secret, cleaner, req, touched, phase, signals, table, submitted>>
    /\ UNCHANGED extra

\* the token is decoded with some key and Validation at some later time
Verify ==
    /\ issued.stage = "issued"
    /\ \E k \in Secrets, v \in Validations, off \in VerifyOffsets :
         LET at == issued.now + off
             res == decode(issued.token, k, v, at)
         IN issued' = [issued EXCEPT !.stage = "verified", !.key = k, !.val = v, !.at = at,
                                     !.verdict = res,
                                     !.claims = IF res = "ok" THEN ClaimsOf(issued.token)
                                                ELSE NoClaims]
    /\ UNCHANGED <<clock, ticks, mix, public_limiter, private_limiter, jwt_config,
                   startup_secret, cleaner, req, touched, phase, signals, table, submitted>>
    /\ UNCHANGED extra

JwtNext == Issue \/ Verify

JwtSpec == Started({{}}) /\ [][JwtNext]_vars

\* ------------------------------------------------------------------------
\* Score table on its own: add_new_score_db calls, one after the other
\* ------------------------------------------------------------------------
Submit ==
    /\ Rows(submitted) < MaxSubmits
    /\ \E score \in ScoreValues :
         /\ table' = add_new_score_db(table, score)
         /\ submitted' = InsertRow(submitted, score)
    /\ UNCHANGED <<clock, ticks, mix, public_limiter, private_limiter, jwt_config,
                   startup_secret, cleaner, req, touched, phase, signals, issued>>
    /\ UNCHANGED extra

DbNext == Submit

DbSpec == Started({{}}) /\ [][DbNext]_vars

\* ------------------------------------------------------------------------
\* Replacement of the JwtConfig: the rotation task the specification
\* describes, writing through jwt_config.write().await
\* ------------------------------------------------------------------------
\* secrets generate_secret returns later in a run: "s0", under which tokens
\* are presented, and "s2", under which none are
NewSecrets == {"s0", "s2"}

\* the write lock is granted only when no read guard is out
NoReadGuard(rq) == \A r \in Reqs : rq[r].guards = 0

\* a reader queued behind the writer gets its guard when the writer releases
Granted(q, cfg, ver) ==
    IF q.pc = "jwt_wait_secret" THEN AcquireSecret(q, cfg, ver)
    ELSE IF q.pc = "jwt_wait_validation" THEN AcquireValidation(q, cfg, ver)
    ELSE q

\* the rotation task calls write(): granted at once, or queued
RotateRequest ==
    /\ phase # "Stopped"
    /\ rw.writer = "none"
    /\ rw.version < MaxRotations
    /\ rw' = [rw EXCEPT !.writer = IF NoReadGuard(req) THEN "held" ELSE "waiting"]
    /\ UNCHANGED <<clock, ticks, mix, public_limiter, private_limiter, jwt_config,
                   startup_secret, cleaner, req, touched>>
    /\ UNCHANGED <<phase, signals, table, submitted, issued, probe, twin, calls, inserted>>

\* the last read guard has been dropped: the queued writer gets the lock
RotateAcquire ==
    /\ rw.writer = "waiting"
    /\ NoReadGuard(req)
    /\ rw' = [rw EXCEPT !.writer = "held"]
    /\ UNCHANGED <<clock, ticks, mix, public_limiter, private_limiter, jwt_config,
                   startup_secret, cleaner, req, touched>>
    /\ UNCHANGED <<phase, signals, table, submitted, issued, probe, twin, calls, inserted>>

\* the writer replaces the JwtConfig and drops its guard; the readers queued
\* behind it are granted theirs
Rotate ==
    /\ rw.writer = "held"
    /\ \E s \in NewSecrets \ {jwt_config.secret} :
         /\ jwt_config' = JwtConfigNew(s)
         /\ req' = [r \in Reqs |-> Granted(req[r], JwtConfigNew(s), rw.version + 1)]
    /\ rw' = [writer |-> "none", version |-> rw.version + 1]
    /\ UNCHANGED <<clock, ticks, mix, public_limiter, private_limiter,
                   startup_secret, cleaner, touched>>
    /\ UNCHANGED <<phase, signals, table, submitted, issued, probe, twin, calls, inserted>>

\* runs with a writer receive requests of one kind on a protected route
RotationWorkloads ==
    {{i} : i \in {k \in KeyedInputs : RouteClass(k.path) = "private" /\ k.auth.tok.role = "user"}}

RotationNext ==
    \/ \E r \in Reqs : Arrive(r)
    \/ \E r \in Reqs : GovLoad(r)
    \/ \E r \in Reqs : GovCas(r)
    \/ \E r \in Reqs : JwtReadSecret(r)
    \/ \E r \in Reqs : JwtReadValidation(r)
    \/ \E r \in Reqs : JwtDecode(r)
    \/ \E r \in Reqs : Handler(r)
    \/ \E r \in Reqs : Finish(r)
    \/ CleanUp
    \/ Tick
    \/ RotateRequest
    \/ RotateAcquire
    \/ Rotate

RotationSpec == Started(RotationWorkloads) /\ [][RotationNext]_vars

\* ------------------------------------------------------------------------
\* Key extraction and token parsing on header values
\* ------------------------------------------------------------------------
\* two requests arrive with some Authorization header values; the governor
\* layer extracts their keys and jwt_middleware parses their tokens
Probe ==
    /\ probe.stage = "none"
    /\ \E h1 \in HeaderValues, h2 \in HeaderValues :
         probe' = [stage |-> "probed", h1 |-> h1, h2 |-> h2,
                   key1 |-> extract(h1), key2 |-> extract(h2),
                   tok1 |-> middleware_token(h1), tok2 |-> middleware_token(h2)]
    /\ UNCHANGED <<clock, ticks, mix, public_limiter, private_limiter, jwt_config,
                   startup_secret, cleaner, req, touched>>
    /\ UNCHANGED <<phase, signals, table, submitted, issued, rw, twin, calls, inserted>>

KeyNext == Probe

KeySpec == Started({{}}) /\ [][KeyNext]_vars

\* ------------------------------------------------------------------------
\* Score table under concurrent add_new_score_db calls: every statement is
\* atomic in the database, a call's three statements are not
\* ------------------------------------------------------------------------
InsertsPending == Cardinality({c \in Calls : calls[c].pc = "insert"})

\* check_if_record_worthy(pool, &score).await?
CallCheck(c) ==
    /\ calls[c].pc = "idle"
    /\ Rows(inserted) + InsertsPending < MaxSubmits
    /\ \E score \in ScoreValues :
         calls' = [calls EXCEPT ![c] =
                     IF check_if_record_worthy(table, score)
                     THEN [pc |-> "insert", score |-> score, raced |-> FALSE]
                     ELSE @]
    /\ UNCHANGED <<clock, ticks, mix, public_limiter, private_limiter, jwt_config,
                   startup_secret, cleaner, req, touched>>
    /\ UNCHANGED <<phase, signals, table, submitted, issued, rw, probe, twin, inserted>>

\* INSERT INTO flappy_dragon_score ...
CallInsert(c) ==
    /\ calls[c].pc = "insert"
    /\ table' = InsertRow(table, calls[c].score)
    /\ inserted' = InsertRow(inserted, calls[c].score)
    /\ calls' = [calls EXCEPT ![c].pc = "delete"]
    /\ UNCHANGED <<clock, ticks, mix, public_limiter, private_limiter, jwt_config,
                   startup_secret, cleaner, req, touched>>
    /\ UNCHANGED <<phase, signals, submitted, issued, rw, probe, twin>>

\* DELETE FROM flappy_dragon_score WHERE id NOT IN (top 10); Ok(())
CallDelete(c) ==
    /\ calls[c].pc = "delete"
    /\ table' = delete_outside_top(table)
    /\ calls' = [calls EXCEPT ![c].pc = "idle",
                              ![c].raced = Rows(table) > TopLimit + 1]
    /\ UNCHANGED <<clock, ticks, mix, public_limiter, private_limiter, jwt_config,
                   startup_secret, cleaner, req, touched>>
    /\ UNCHANGED <<phase, signals, submitted, issued, rw, probe, twin, inserted>>

CallNext == \E c \in Calls : CallCheck(c) \/ CallInsert(c) \/ CallDelete(c)

CallSpec == Started({{}}) /\ [][CallNext]_vars

\* ------------------------------------------------------------------------
\* Checks on one key, with and without sweeps
\* ------------------------------------------------------------------------
\* a check of the key arrives; both limiters decide it
TwinCheck ==
    /\ \E lim \in (IF twin.lim = "none" THEN {"public", "private"} ELSE {twin.lim}) :
         LET ds == GcraDecide(twin.swept, twin.now, PeriodOf(lim), BurstOf(lim))
             dp == GcraDecide(twin.plain, twin.now, PeriodOf(lim), BurstOf(lim))
         IN twin' = [twin EXCEPT !.lim = lim, !.checked = TRUE,
                                 !.swept = ds.next, !.plain = dp.next,
                                 !.allow_swept = ds.ok, !.allow_plain = dp.ok,
                                 !.passed_swept = IF ds.ok THEN @ + 1 ELSE @,
                                 !.passed_plain = IF dp.ok THEN @ + 1 ELSE @]
    /\ UNCHANGED <<clock, ticks, mix, public_limiter, private_limiter, jwt_config,
                   startup_secret, cleaner, req, touched>>
    /\ UNCHANGED <<phase, signals, table, submitted, issued, rw, probe, calls, inserted>>

\* the clean-up task runs retain_recent on the swept limiter
TwinSweep ==
    /\ twin.lim # "none"
    /\ LET kept == retain_recent([k \in {"key"} |-> twin.swept], twin.now)["key"]
       IN twin' = [twin EXCEPT !.checked = FALSE, !.swept = kept,
                               !.dropped = IF kept # twin.swept THEN @ + 1 ELSE @]
    /\ UNCHANGED <<clock, ticks, mix, public_limiter, private_limiter, jwt_config,
                   startup_secret, cleaner, req, touched>>
    /\ UNCHANGED <<phase, signals, table, submitted, issued, rw, probe, calls, inserted>>

\* time passes between two checks
TwinAdvance ==
    /\ twin.advances < MaxAdvances
    /\ \E d \in TwinSteps :
         twin' = [twin EXCEPT !.checked = FALSE, !.now = @ + d, !.advances = @ + 1]
    /\ UNCHANGED <<clock, ticks, mix, public_limiter, private_limiter, jwt_config,
                   startup_secret, cleaner, req, touched>>
    /\ UNCHANGED <<phase, signals, table, submitted, issued, rw, probe, calls, inserted>>

TwinNext == TwinCheck \/ TwinSweep \/ TwinAdvance

TwinSpec == Started({{}}) /\ [][TwinNext]_vars

TypeOK ==
    /\ clock \in Nat
    /\ ticks \in 0..MaxTicks
    /\ \A r \in Reqs : req[r].pc \in {"idle", "gov_load", "gov_cas", "jwt_read_secret",
                                      "jwt_read_validation", "jwt_decode", "handler", "done",
                                      "reading", "jwt_wait_secret", "jwt_wait_validation"}
    /\ rw.writer \in {"none", "waiting", "held"} /\ rw.version \in 0..MaxRotations
    /\ phase \in {"Running", "Draining", "Stopped"}
    /\ Len(signals) <= MaxSignals
    /\ Rows(submitted) <= MaxSubmits
    /\ Rows(table) <= TopLimit

\* ------------------------------------------------------------------------
\* Properties
\* ------------------------------------------------------------------------
IsPrivate(q) == q.pc # "idle" /\ RouteClass(q.path) = "private"
IsBearer(q) == q.auth.kind = "text" /\ q.auth.bearer
Allowed(lim, tat, now) == GcraDecide(tat, now, PeriodOf(lim), BurstOf(lim)).ok
After(lim, tat, now) == GcraDecide(tat, now, PeriodOf(lim), BurstOf(lim)).next

\* C1: on a protected route the limiter runs before jwt_middleware:
\* jwt_middleware is only ever invoked for a request the limiter allowed, and
\* a request the limiter rejected ends with 429 without any secret read,
\* token verification or handler run.
C1_RateLimitPrecedesAuth ==
    \A r \in Reqs :
        LET q == req[r] IN
        IsPrivate(q) =>
            /\ (q.jwt \/ q.authn) => q.gov = "allowed"
            /\ q.gov = "rejected" =>
                 q.pc = "done" /\ q.status = 429 /\ ~q.jwt /\ ~q.authn /\ ~q.handled

\* a request with a token signed by another secret met an exhausted bucket
C1_Witness ==
    \E r \in Reqs :
        LET q == req[r] IN
        /\ IsPrivate(q) /\ IsBearer(q) /\ q.pc = "done"
        /\ q.auth.tok.sig # jwt_config.secret
        /\ q.gov = "rejected" /\ q.status = 429 /\ ~q.jwt

\* C2: every response carries the six security headers with the fixed values.
C2_EveryResponseHasSecurityHeaders ==
    \A r \in Reqs : req[r].pc = "done" => req[r].hdrs = SecurityHeaders

\* C3: on a protected route that the request reaches, a missing
\* Authorization header gives 401, a header without the "Bearer " prefix
\* gives 400, and a token with a bad signature or past its expiry gives 401
\* (when the limiter let the request through).
C3_AuthStatusContract ==
    \A r \in Reqs :
        LET q == req[r] IN
        (IsPrivate(q) /\ q.pc = "done" /\ q.gov # "none") =>
            /\ q.auth.kind = "none" => q.status = 401
            /\ (q.auth.kind = "text" /\ ~q.auth.bearer) => q.status = 400
            /\ (IsBearer(q) /\ q.gov = "allowed"
                  /\ (q.auth.tok.sig # jwt_config.secret \/ q.auth.tok.exp < clock - Leeway))
               => q.status = 401

\* C4: a request whose body is larger than the cap is rejected with 413
\* before any limiter decision is taken on a bucket, any secret is read or
\* any handler runs.
C4_OversizedBodyRejectedFirst ==
    \A r \in Reqs :
        LET q == req[r] IN
        (q.pc # "idle" /\ q.body > BodyLimit) =>
            /\ q.gov \notin {"allowed", "rejected"}
            /\ ~q.jwt /\ ~q.authn /\ ~q.handled
            /\ q.pc = "done" => q.status = 413

\* C5: once the process has run for two rotation intervals the stored secret
\* is no longer the one created at startup.
C5_SecretRotated ==
    clock >= 2 * RotationInterval => jwt_config.secret # startup_secret

\* C6: a token signed with a secret other than the stored one never gets
\* past jwt_middleware, whatever its expiry: the handler is not run and the
\* response of a request the limiter allowed is 401 (unless the Timeout layer
\* ended the request before jwt_middleware answered).
C6_OtherSecretRejected ==
    \A r \in Reqs :
        LET q == req[r] IN
        (IsPrivate(q) /\ IsBearer(q) /\ q.auth.tok.sig # jwt_config.secret) =>
            /\ q.pc # "handler" /\ ~q.handled
            /\ (q.pc = "done" /\ q.gov = "allowed" /\ q.status # 408) => q.status = 401

\* an unexpired token signed with another secret was verified and refused
C6_Witness ==
    \E r \in Reqs :
        LET q == req[r] IN
        /\ IsPrivate(q) /\ IsBearer(q) /\ q.pc = "done"
        /\ q.auth.tok.sig # jwt_config.secret
        /\ q.auth.tok.exp >= clock - Leeway
        /\ q.authn /\ q.status = 401

\* C7: public limiter: three requests for a fresh key within one second are
\* allowed and leave the bucket empty (a fourth is rejected), and one second
\* later a request for that key is allowed again.
C7_PublicBurstAndRefill ==
    \A k \in IPs :
        LET a1 == After("public", NoEntry, clock)
            a2 == After("public", a1, clock)
            a3 == After("public", a2, clock)
        IN public_limiter[k] = a3 =>
             /\ ~Allowed("public", a3, clock)
             /\ Allowed("public", a3, clock + 1)

\* C8: a check on one key changes neither another key's cell in the same
\* limiter nor any cell of the other limiter.
C8_KeysIndependent ==
    [][\A r \in Reqs :
         (req[r].pc \in {"gov_load", "gov_cas"} /\ req'[r] # req[r]) =>
            LET lim == LimiterOf(req[r].path)
                k == LimiterKey(req[r])
            IN IF lim = "public"
               THEN /\ private_limiter' = private_limiter
                    /\ \A k2 \in IPs \ {k} : public_limiter'[k2] = public_limiter[k2]
               ELSE /\ public_limiter' = public_limiter
                    /\ \A k2 \in PrivateKeys \ {k} : private_limiter'[k2] = private_limiter[k2]]_vars

\* key ip1 is exhausted while a request of ip2 has been allowed and ip2's
\* bucket holds exactly what that one request left
C8_Witness ==
    /\ public_limiter["ip1"] # NoEntry
    /\ ~Allowed("public", public_limiter["ip1"], clock)
    /\ public_limiter["ip2"] = After("public", NoEntry, clock)
    /\ \E r \in Reqs : req[r].ip = "ip2" /\ req[r].gov = "allowed"

\* C9: every Allow is decided on the key's current value and consumes it:
\* the step that returns Allow finds a token in the stored cell and replaces
\* the cell by its successor, so one available token is handed out once.
C9_CheckAtomic ==
    [][\A r \in Reqs :
         (req[r].pc = "gov_cas" /\ req'[r].gov = "allowed") =>
            LET lim == LimiterOf(req[r].path)
                k == LimiterKey(req[r])
                cur == Store(lim)[k]
                new == IF lim = "public" THEN public_limiter'[k] ELSE private_limiter'[k]
            IN /\ Allowed(lim, cur, clock)
               /\ new = After(lim, cur, clock)]_vars

\* two requests of one key both saw the last token; one took it, and the
\* other is about to have its compare-and-exchange refused
C9_Witness ==
    \E r1 \in Reqs, r2 \in Reqs :
        /\ r1 # r2
        /\ req[r1].path = req[r2].path /\ req[r1].ip = req[r2].ip /\ req[r1].auth = req[r2].auth
        /\ req[r1].gov = "allowed"
        /\ req[r2].pc = "gov_cas"
        /\ LET lim == LimiterOf(req[r2].path)
               cur == Store(lim)[LimiterKey(req[r2])]
           IN /\ req[r2].seen # cur
              /\ Allowed(lim, req[r2].seen, clock)
              /\ ~Allowed(lim, After(lim, req[r2].seen, clock), clock)
              /\ ~Allowed(lim, cur, clock)

\* C10: a protected request with no extractable key is answered by the
\* governor layer: it never gets a bucket (not even a shared default one),
\* never reaches jwt_middleware or a handler.
C10_NoKeyRejected ==
    /\ private_limiter[DefaultKey] = NoEntry
    /\ \A r \in Reqs :
        LET q == req[r] IN
        (IsPrivate(q) /\ ~IsBearer(q)) =>
            /\ q.pc = "done" /\ q.gov = "nokey"
            /\ ~q.jwt /\ ~q.authn /\ ~q.handled

\* a request without Authorization header was refused by the governor layer
C10_Witness ==
    \E r \in Reqs :
        LET q == req[r] IN
        /\ IsPrivate(q) /\ q.auth.kind = "none" /\ q.pc = "done"
        /\ q.gov = "nokey" /\ q.status = 500

RECURSIVE Burstable(_, _, _, _)
\* n checks in a row at the instant now, starting from cell value tat, are
\* all allowed
Burstable(lim, tat, now, n) ==
    n = 0 \/ (Allowed(lim, tat, now) /\ Burstable(lim, After(lim, tat, now), now, n - 1))

KeysOf(lim) == IF lim = "public" THEN IPs ELSE PrivateKeys

\* C11: a sweep removes every key whose last allowed check lies a full sweep
\* interval or more back, and the bucket a request then finds for that key
\* is full: burst checks in a row are allowed, one more is not.
C11_SweepResetsIdleKeys ==
    [][cleaner' # cleaner =>
         \A lim \in {"public", "private"} : \A k \in KeysOf(lim) :
            (touched[lim][k] # NoEntry /\ touched[lim][k] + SweepInterval <= clock) =>
                LET after == IF lim = "public" THEN public_limiter'[k] ELSE private_limiter'[k]
                IN /\ after = NoEntry
                   /\ Burstable(lim, after, clock', BurstOf(lim))
                   /\ ~Burstable(lim, after, clock', BurstOf(lim) + 1)]_vars

\* a key last checked a sweep interval ago has been swept, and the next
\* request for it has loaded the empty cell
C11_Witness ==
    \E r \in Reqs :
        LET q == req[r]
            lim == LimiterOf(q.path)
        IN /\ q.pc = "gov_cas" /\ q.seen = NoEntry
           /\ Store(lim)[LimiterKey(q)] = NoEntry
           /\ touched[lim][LimiterKey(q)] # NoEntry
           /\ touched[lim][LimiterKey(q)] + SweepInterval <= clock
           /\ cleaner > clock

\* a request that is inside the layer stack
InFlight(q) == q.pc \notin {"idle", "reading", "done"}

\* C12: from the first termination signal on (of whichever kind) no
\* connection is accepted, and a connection that is open is not cut off by
\* the shutdown: it only ends by its response being written (or by its
\* client closing it before sending a request), its pending step stays
\* possible, and serve does not return while one is open.
C12_DrainingKeepsInFlight ==
    /\ [](Len(signals) > 0 => phase # "Running")
    /\ [](phase = "Stopped" => \A r \in Reqs : req[r].pc = "idle")
    /\ [](\A r \in Reqs :
            (phase = "Draining" /\ req[r].pc = "handler" /\ Live(req[r])) => ENABLED Handler(r))
    /\ [][\A r \in Reqs :
            /\ (phase # "Running" /\ req[r].pc = "idle") => req'[r].pc = "idle"
            /\ (phase # "Running" /\ req[r].pc # "idle" /\ req'[r].pc = "idle")
                  => req[r].pc \in {"done", "reading"}]_vars

\* after a signal one request is still being handled while the other task,
\* free, takes no connection; the handled request's response then follows
C12_Witness ==
    /\ phase = "Draining"
    /\ \E r1 \in Reqs, r2 \in Reqs :
          /\ req[r1].pc = "done" /\ req[r1].handled /\ req[r1].status = 200
          /\ req[r2].pc = "idle"

\* C13: after a termination signal the server reaches Stopped, also when a
\* connection that was open at the signal never completes, and without
\* waiting for the clean-up task.
C13_StoppedReached == (phase = "Draining") ~> (phase = "Stopped")

\* C14: the phase only moves Running -> Draining -> Stopped; once a signal
\* has been received no later signal or other event brings back Running or
\* lets a connection be accepted, and nothing changes in Stopped.
C14_LifecycleOneWay ==
    [][/\ phase' # phase => <<phase, phase'>> \in {<<"Running", "Draining">>, <<"Draining", "Stopped">>}
       /\ phase # "Running" =>
             \A r \in Reqs : req[r].pc = "idle" => req'[r].pc = "idle"
       /\ phase = "Stopped" =>
             UNCHANGED <<phase, signals, req, public_limiter, private_limiter, jwt_config, cleaner>>]_vars

\* two signals of different kinds were delivered and the server has stopped
C14_Witness ==
    /\ Len(signals) = 2 /\ signals[1] # signals[2]
    /\ phase = "Stopped"

\* C15: a request still inside the layer stack when its 10-second deadline
\* elapses takes no further step of its own: it is aborted, what it holds is
\* released, and its response is a gateway timeout.
C15_DeadlineGivesGatewayTimeout ==
    [][\A r \in Reqs :
         (InFlight(req[r]) /\ clock' >= req[r].start + TimeoutSecs) =>
            /\ req'[r].pc = "done"
            /\ req'[r].seen = NoEntry
            /\ req'[r].status = GatewayTimeout]_vars

C17_AcceptedUntilExpiryPlusLeeway ==
    (/\ issued.stage = "verified"
     /\ issued.secret = jwt_config.secret /\ issued.key = jwt_config.secret
     /\ issued.val = [leeway |-> jwt_config.leeway, validate_exp |-> jwt_config.validate_exp]) =>
        /\ issued.verdict = "ok" <=> issued.at <= issued.token.exp + Leeway
        /\ issued.verdict # "ok" => issued.verdict = "ExpiredSignature"
        /\ issued.at = issued.now + Leeway =>
              issued.verdict = "ok" /\ issued.claims.sub = issued.user
                                    /\ issued.claims.role = issued.role
        /\ issued.at = issued.now + TokenLifetime + Leeway + 1 => issued.verdict = "ExpiredSignature"

\* a token presented exactly leeway seconds after its expiry is accepted
C17_Witness ==
    /\ issued.stage = "verified"
    /\ issued.secret = jwt_config.secret /\ issued.key = jwt_config.secret
    /\ issued.val.validate_exp
    /\ issued.at = issued.token.exp + Leeway
    /\ issued.verdict = "ok"

\* the pipeline lets a request with a valid token through to its handler,
\* whatever the token's role
AdmittedWhateverRole ==
    \A r \in Reqs :
        LET q == req[r] IN
        (/\ IsPrivate(q) /\ IsBearer(q) /\ q.pc = "done" /\ q.gov = "allowed" /\ q.status # 408
         /\ q.auth.tok.sig = jwt_config.secret /\ clock <= q.auth.tok.exp + Leeway) =>
            q.handled /\ q.status \notin {401, 403}

\* C18: when jwt_middleware has accepted a request's token, the handler
\* receives the verified claims (sub, role, exp) with the request, and the
\* pipeline admits the request whatever its role.
C18_ClaimsReachHandler ==
    /\ AdmittedWhateverRole
    /\ \A r \in Reqs :
          LET q == req[r] IN
          (IsPrivate(q) /\ (q.pc = "handler" \/ q.handled)) => q.ext = ClaimsOf(q.auth.tok)

\* the scores of t that are at least 1
AtLeastOne(t) == [s \in ScoreValues |-> IF s >= 1 THEN t[s] ELSE 0]

\* C19: after any sequence of add_new_score_db calls on an empty table,
\* get_scores_db returns the 10 highest of the submitted scores that are at
\* least 1 (all of them when there are fewer than 10), highest first.
C19_TopTenOfSubmitted ==
    get_scores_db(table) = Descending(TopRows(AtLeastOne(submitted), TopLimit), MaxScore)

\* an allowed check on a protected route consumes from the bucket of the
\* bearer string before the token is looked at, and the consumption stays
ConsumedOnceAllowed ==
    \A r \in Reqs :
        LET q == req[r]
            k == LimiterKey(q)
        IN (IsPrivate(q) /\ IsBearer(q) /\ q.gov = "allowed" /\ touched["private"][k] = clock) =>
              private_limiter[k] >= clock + PrivatePeriod

\* a cell of the private limiter changes only by a sweep or by an allowed
\* check taking one unit: no step of a request gives a unit back
NeverRolledBack ==
    \A k \in Tokens :
        private_limiter'[k] # private_limiter[k] =>
           \/ cleaner' # cleaner
           \/ \E r \in Reqs :
                 /\ req[r].pc = "gov_cas" /\ req'[r].gov = "allowed"
                 /\ LimiterKey(req[r]) = k
                 /\ private_limiter'[k] = After("private", private_limiter[k], clock)

\* after an allowed check, fewer than most_fresh further checks at the same
\* instant are allowed when the key had no cell, and fewer than most_old
\* when it had one
RefusedAfter(most_fresh, most_old) ==
    \A k \in Tokens :
        (private_limiter'[k] # private_limiter[k] /\ cleaner' = cleaner) =>
            ~Burstable("private", private_limiter'[k], clock,
                       IF private_limiter[k] = NoEntry THEN most_fresh ELSE most_old)

RECURSIVE TokenCount(_, _, _, _)
\* the number of tokens a bucket holds: how many checks in a row its cell
\* tat lets through at the instant now, counted up to most
TokenCount(lim, tat, now, most) ==
    IF most = 0 \/ ~Allowed(lim, tat, now) THEN 0
    ELSE 1 + TokenCount(lim, After(lim, tat, now), now, most - 1)

\* the cell values the keys of a limiter have
CellsOf(lim) == {Store(lim)[k] : k \in KeysOf(lim)}

\* the value of an emptied bucket's cell: no check is allowed to move a cell
\* beyond it
EmptyCell(lim, now) == now + (BurstOf(lim) + 1) * PeriodOf(lim)

\* the buckets of both limiters hold between 0 and cap_fresh tokens when
\* the key has no cell, between 0 and cap_old tokens when it has one, and
\* no cell lies beyond the emptied bucket's value
TokenCountWithin(cap_fresh, cap_old) ==
    \A lim \in {"public", "private"} : \A c \in CellsOf(lim) :
        LET cap == IF c = NoEntry THEN cap_fresh[lim] ELSE cap_old[lim]
        IN /\ TokenCount(lim, c, clock, BurstOf(lim) + 2) \in 0..cap
           /\ c <= EmptyCell(lim, clock)

Capacity == [lim \in {"public", "private"} |-> BurstOf(lim)]
CapacityPlusOne == [lim \in {"public", "private"} |-> BurstOf(lim) + 1]

StoreNext(lim) == IF lim = "public" THEN public_limiter' ELSE private_limiter'

\* C22: a sweep and a check on the same key do not corrupt the key, however
\* their steps interleave: the sweep either removes the key (its bucket had
\* refilled, and the next request finds a full one) or leaves the state the
\* last check produced untouched, and every step of a check either retries
\* or ends in Allow or Reject decided on the key's current state.
C22_SweepKeepsKeysSound ==
    [][/\ cleaner' # cleaner =>
             \A lim \in {"public", "private"} : \A k \in KeysOf(lim) :
                LET cur == Store(lim)[k]
                    new == StoreNext(lim)[k]
                IN /\ new = IF cur > clock THEN cur ELSE NoEntry
                   /\ new = NoEntry => TokenCount(lim, new, clock, BurstOf(lim) + 1) = BurstOf(lim)
       /\ \A r \in Reqs :
             (req[r].pc \in {"gov_load", "gov_cas"} /\ req'[r] # req[r] /\ clock' = clock) =>
                LET lim == LimiterOf(req[r].path)
                    cur == Store(lim)[LimiterKey(req[r])]
                    new == StoreNext(lim)[LimiterKey(req[r])]
                IN \/ req'[r].pc = "gov_cas" /\ new = cur
                   \/ req'[r].gov = "allowed" /\ Allowed(lim, cur, clock)
                                               /\ new = After(lim, cur, clock)
                   \/ req'[r].gov = "rejected" /\ ~Allowed(lim, cur, clock) /\ new = cur]_vars

\* at the instant of a sweep (not the first one) a check on some key was
\* allowed and the key holds the state that check produced, while another
\* check on the same key is under way
C22_Witness ==
    \E r1 \in Reqs, r2 \in Reqs :
        LET lim == LimiterOf(req[r1].path)
            k == LimiterKey(req[r1])
        IN /\ clock > 0 /\ cleaner = clock + SweepInterval
           /\ req[r1].gov = "allowed" /\ touched[lim][k] = clock
           /\ Store(lim)[k] > clock
           /\ req[r2].pc \in {"gov_load", "gov_cas"}
           /\ LimiterOf(req[r2].path) = lim /\ LimiterKey(req[r2]) = k

\* C23: the secret and the validation that jwt_middleware passes to one
\* decode call were read from the same JwtConfig value, the one the store
\* holds at the call, whatever a writer does meanwhile.
C23_ConsistentSnapshot ==
    \A r \in Reqs :
        req[r].pc = "jwt_decode" =>
            /\ req[r].secver = req[r].valver
            /\ req[r].sec = jwt_config.secret
            /\ req[r].val = [leeway |-> jwt_config.leeway,
                             validate_exp |-> jwt_config.validate_exp]

\* a request is about to decode with what it read from the JwtConfig a
\* rotation has installed, while the writer is queued for the next one
C23_Witness ==
    \E r \in Reqs :
        /\ req[r].pc = "jwt_decode"
        /\ rw.writer = "waiting" /\ rw.version >= 1
        /\ req[r].secver = rw.version /\ req[r].valver = rw.version

\* C25: a protected request never waits for the lock behind a writer that
\* itself waits for a read guard the request holds.
C25_ReadsNeverBlockOnOwnGuard ==
    \A r \in Reqs :
        ~(/\ req[r].pc \in {"jwt_wait_secret", "jwt_wait_validation"}
          /\ req[r].guards > 0
          /\ rw.writer = "waiting")

\* C26: while the handler of an authenticated request runs, the store holds
\* the JwtConfig the request's token was verified against and no writer has
\* the lock.
C26_SecretStableDuringHandler ==
    \A r \in Reqs :
        (IsPrivate(req[r]) /\ req[r].pc = "handler") =>
            /\ jwt_config.secret = req[r].sec
            /\ rw.version = req[r].secver
            /\ rw.writer # "held"

\* the handler of a request verified under a rotated secret is running
\* while the writer is queued for the next replacement
C26_Witness ==
    \E r \in Reqs :
        /\ IsPrivate(req[r]) /\ req[r].pc = "handler"
        /\ rw.version >= 1 /\ rw.writer = "waiting"
        /\ req[r].sec = jwt_config.secret

\* C24: every response produced inside set_up_security_headers (by a routed
\* handler or the 404 fallback, by a governor layer, by jwt_middleware)
\* carries the six security headers with the fixed values, whatever the
\* inner response carried for them.
C24_InnerResponsesHaveSecurityHeaders ==
    \A r \in Reqs :
        LET q == req[r] IN
        (/\ q.pc = "done" /\ q.status # 408
         /\ (q.handled \/ q.gov \in {"rejected", "nokey"} \/ q.jwt)) =>
            q.hdrs = SecurityHeaders

\* a handler's response and a rate-limit rejection, both with the six headers
C24_Witness ==
    \E r1 \in Reqs, r2 \in Reqs :
        /\ req[r1].pc = "done" /\ req[r1].handled /\ req[r1].status = 200
        /\ req[r2].pc = "done" /\ req[r2].gov = "rejected" /\ req[r2].status = 429
        /\ req[r1].hdrs = SecurityHeaders /\ req[r2].hdrs = SecurityHeaders

\* C27: two Authorization header values that start with "Bearer " and whose
\* rest trims to the same token, so that jwt_middleware decodes the same
\* token for both, get the same rate-limit key from JwtKeyExtractor.
C27_SameTokenSameKey ==
    (/\ probe.stage = "probed"
     /\ probe.tok1.ok /\ probe.tok2.ok
     /\ probe.tok1.token # << >>
     /\ probe.tok1.token = probe.tok2.token) =>
        (probe.key1.ok /\ probe.key2.ok /\ probe.key1.key = probe.key2.key)

C29_HandledAfterLimiterCheck ==
    \A r \in DOMAIN req :
        (req[r].pc = "handler" \/ req[r].handled) => req[r].gov = "allowed"

Quiescent == \A c \in Calls : calls[c].pc = "idle"

\* C30: under any interleaving of concurrent add_new_score_db calls, whenever
\* no call is in progress the table holds at most 10 rows, and no row present
\* has a score lower than an inserted score that was trimmed away.
C30_ConcurrentTrimKeepsTop ==
    Quiescent =>
        /\ Rows(table) <= TopLimit
        /\ \A s \in ScoreValues, low \in ScoreValues :
              (inserted[s] > table[s] /\ low < s) => table[low] = 0

\* no call is in progress after two calls inserted before either trimmed;
\* an inserted row was trimmed away and the table is full
C30_Witness ==
    /\ Quiescent
    /\ \E c \in Calls : calls[c].raced
    /\ Rows(table) = TopLimit
    /\ \E s \in ScoreValues : inserted[s] > table[s]
====
